---- MODULE Spec2Model ----
(***************************************************************************)
(* Model of package-metrics' collect_downloads.py: the per-package fetch   *)
(* adapters and their worker pools, the crates listing loop, the           *)
(* reconciliation step compute_deltas and the driver main.                 *)
(*                                                                         *)
(* Python values.  A counter is either a number, written Num(n), or the    *)
(* Python value None, or a dictionary key that is absent (Missing).        *)
(***************************************************************************)
EXTENDS Integers, Sequences, FiniteSets, TLC

VARIABLES
    data,       \* compute_deltas / main: the record list (mutated in place)
    prev_map,   \* the previous snapshot map: identity -> downloads
    raised,     \* whether the last call of compute_deltas raised
    calls,      \* how many times compute_deltas has been called
    data0,      \* the record list as first handed to compute_deltas
    data1,      \* the record list after the first call
    mode,       \* fan-out: the adapter running ("pypi", "crates", "github")
    names,      \* fan-out: the package names the listing yielded
    pkgs,       \* fan-out: the adapter's record list
    task,       \* fan-out: per package, the state of its fetch
    fpc,        \* fan-out: the adapter's position ("fanout", "returned")
    luser,      \* crates listing: index of the user being listed
    page_num,   \* crates listing: the page to fetch next
    seen,       \* crates listing: the crate names seen in this run
    results,    \* crates listing: the records listed so far
    fetches,    \* crates listing: per user, the page fetches made
    pc,         \* main: the statement to execute next
    cause,      \* main: what ended the run with an exception
    steps       \* main: the steps executed so far, in order

deltaVars == <<data, prev_map, raised, calls, data0, data1>>
fetchVars == <<mode, names, pkgs, task, fpc>>
listVars == <<luser, page_num, seen, results, fetches>>
mainVars == <<pc, cause, steps>>
vars == <<deltaVars, fetchVars, listVars, mainVars>>

----------------------------------------------------------------------------
(* Bounds of the model. *)
MaxVal == 1
MaxRecords == 2
MaxCalls == 2
MaxPkgs == 2
MaxPage == 2

(* Config *)
MAX_RETRIES == 3
MAX_WORKERS == 8
USERS == <<"asimov-platform", "asimov-modules">>

----------------------------------------------------------------------------
(* Python values *)
Num(n) == [num |-> n]
None == [none |-> TRUE]
Missing == [missing |-> TRUE]
IsNum(v) == DOMAIN v = {"num"}

Max(a, b) == IF a >= b THEN a ELSE b

\* dict.get(key, default): the default only when the key is absent; a key
\* that is present with the value None yields None.
DictGet(v, default) == IF v = Missing THEN default ELSE v

----------------------------------------------------------------------------
(* compute_deltas *)

\* key = (row["source"], row["owner"], row["name"])
Key(row) == <<row.source, row.owner, row.name>>

\* Mutant of PrevGet: an absent entry read as a previous total of 0.
PrevGet_ZeroDefault(pm, key) == IF key \in DOMAIN pm THEN Num(pm[key]) ELSE Num(0)

\* prev = prev_map.get(key)
PrevGet(pm, key) == IF key \in DOMAIN pm THEN Num(pm[key]) ELSE None

\* current = int(row.get("downloads") or 0)
Current(row) ==
    LET v == DictGet(row.downloads, None)
    IN  IF IsNum(v) THEN v.num ELSE 0

\* Mutant of PypiTotal: the daily figure added to the record's own total.
PypiTotal_Accumulate(row, prev) == Current(row) + DictGet(row.daily_downloads, Num(0)).num

\* prev + row.get("daily_downloads", 0), for a numeric daily figure
PypiTotal(row, prev) == prev + DictGet(row.daily_downloads, Num(0)).num

\* Mutant of CumulativeDaily: the difference without the clamp.
CumulativeDaily_NoClamp(current, prev) == current - prev

\* max(current - prev, 0)
CumulativeDaily(current, prev) == Max(current - prev, 0)

\* One iteration of the loop over data: the row as left by the iteration, and
\* whether the iteration raised (prev + None is a TypeError).
DeltaRow(row, pm) ==
    LET prev == PrevGet(pm, Key(row))
    IN  IF row.source = "pypi"
        THEN IF prev # None
             THEN IF IsNum(DictGet(row.daily_downloads, Num(0)))
                  THEN [row |-> [row EXCEPT !.downloads = Num(PypiTotal(row, prev.num))],
                        raised |-> FALSE]
                  ELSE [row |-> row, raised |-> TRUE]
             ELSE [row |-> row, raised |-> FALSE]
        ELSE [row |-> [row EXCEPT !.daily_downloads =
                          IF prev # None
                          THEN Num(CumulativeDaily(Current(row), prev.num))
                          ELSE Num(0)],
              raised |-> FALSE]

\* The loop from row i on: rows are mutated in place, in order, and an
\* exception leaves the rows after the raising one untouched.
RECURSIVE DeltasFrom(_, _, _)
DeltasFrom(rows, pm, i) ==
    IF i > Len(rows)
    THEN [data |-> rows, raised |-> FALSE]
    ELSE LET r == DeltaRow(rows[i], pm)
         IN  IF r.raised
             THEN [data |-> rows, raised |-> TRUE]
             ELSE DeltasFrom([rows EXCEPT ![i] = r.row], pm, i + 1)

compute_deltas(rows, pm) == DeltasFrom(rows, pm, 1)

----------------------------------------------------------------------------
(* Inputs of compute_deltas *)
Sources == {"pypi", "rubygems", "crates", "github"}
CumulativeOnly == Sources \ {"pypi"}
Owner == "asimov-platform"
Name == "a"

RawVals == {None} \cup {Num(n) : n \in -1..MaxVal}
PrevVals == 0..MaxVal

\* The records an adapter hands over: a pypi record carries the two figures
\* of the stats endpoint, every other record a total and daily_downloads None.
RawRecords ==
    {[source |-> "pypi", owner |-> Owner, name |-> Name,
      downloads |-> d, daily_downloads |-> dd] : d \in RawVals, dd \in RawVals}
    \cup
    {[source |-> s, owner |-> Owner, name |-> Name,
      downloads |-> d, daily_downloads |-> None] : s \in CumulativeOnly, d \in RawVals}

\* main extends all_data adapter by adapter: rubygems, crates, github, pypi.
SourceRank(s) ==
    CASE s = "rubygems" -> 1 [] s = "crates" -> 2 [] s = "github" -> 3 [] s = "pypi" -> 4

\* The lists handed to compute_deltas: at most MaxRecords records of distinct
\* identities, in the order in which main collects them.
RecordLists ==
    UNION {{rows \in [1..n -> RawRecords] :
               \A i \in 1..(n - 1) :
                   SourceRank(rows[i].source) < SourceRank(rows[i + 1].source)}
           : n \in 1..MaxRecords}

KeysOf(rows) == {Key(rows[i]) : i \in 1..Len(rows)}

PrevMaps(keys) == UNION {[D -> PrevVals] : D \in SUBSET keys}

\* The fan-out variables where no fan-out runs.
FetchIdle ==
    /\ mode = "none"
    /\ names = <<>>
    /\ pkgs = <<>>
    /\ task = <<>>
    /\ fpc = "idle"

\* The listing variables where no listing runs.
ListIdle ==
    /\ luser = 0
    /\ page_num = 0
    /\ seen = {}
    /\ results = <<>>
    /\ fetches = <<>>

\* The driver's variables where main does not run.
MainIdle ==
    /\ pc = "idle"
    /\ cause = "none"
    /\ steps = <<>>

InitDeltas ==
    /\ FetchIdle /\ ListIdle /\ MainIdle
    /\ data \in RecordLists
    /\ prev_map \in PrevMaps(KeysOf(data))
    /\ raised = FALSE
    /\ calls = 0
    /\ data0 = data
    /\ data1 = data

CallComputeDeltas ==
    /\ calls < MaxCalls
    /\ LET r == compute_deltas(data, prev_map)
       IN  /\ data' = r.data
           /\ raised' = r.raised
           /\ data1' = IF calls = 0 THEN r.data ELSE data1
    /\ calls' = calls + 1
    /\ UNCHANGED <<prev_map, data0>>
    /\ UNCHANGED <<fetchVars, listVars, mainVars>>

NextDeltas == CallComputeDeltas

SpecDeltas == InitDeltas /\ [][NextDeltas]_vars

----------------------------------------------------------------------------
(* The per-package fetches and their fan-out *)

\* What a successful request of the pypi stats endpoint carries: the "data"
\* object, whose last_day and last_month may be absent or null.
DayVals == {Missing, None, Num(1)}
MonthVals == {Missing, Num(2)}
StatsJsons == [last_day : DayVals, last_month : MonthVals]

\* What response.json()["crate"]["downloads"] and the sum over a repository's
\* release assets can be.
CrateTotals == {Num(n) : n \in 0..MaxVal}

PackageNames == <<"a", "b", "c", "d">>

\* return stats.get("last_day", 0), stats.get("last_month", 0)
fetch_pypistats_result(stats) ==
    [daily |-> DictGet(stats.last_day, Num(0)),
     monthly |-> DictGet(stats.last_month, Num(0))]

\* return 0, 0
PypiZero == [daily |-> Num(0), monthly |-> Num(0)]

\* Mutant of MayAttempt: one attempt more than MAX_RETRIES.
MayAttempt_OffByOne(t) == t.attempt <= MAX_RETRIES

\* for attempt in range(Config.MAX_RETRIES)
MayAttempt(t) == t.attempt < MAX_RETRIES

\* Mutant of PypiCollect: the two figures of the tuple swapped.
PypiCollect_Swapped(pkg, res) ==
    [pkg EXCEPT !.daily_downloads = res.monthly, !.downloads = res.daily]

\* daily, monthly = future.result(); pkg["daily_downloads"] = daily;
\* pkg["downloads"] = monthly
PypiCollect(pkg, res) ==
    [pkg EXCEPT !.daily_downloads = res.daily, !.downloads = res.monthly]

\* crate["downloads"] = future.result(); crate["daily_downloads"] = None
CratesCollect(pkg, res) ==
    [pkg EXCEPT !.downloads = res.downloads, !.daily_downloads = None]

\* entries.append({... "downloads": total_dl, "daily_downloads": None})
GithubEntry(name, total) ==
    [source |-> "github", owner |-> Owner, name |-> name,
     downloads |-> total, daily_downloads |-> None]

\* A submitted future: st is its state, attempt the retry loop's variable,
\* requests the number of HTTP requests issued, ok_at the request that
\* succeeded (0: none), got what that request carried, result the value the
\* task function returned.
NewTask ==
    [st |-> "queued", attempt |-> 0, requests |-> 0, ok_at |-> 0,
     got |-> None, result |-> None]

Tasks == 1..Len(task)
Running == {j \in Tasks : task[j].st = "running"}

\* The records the listing step hands to the pool: identities, no counter yet.
ListedPkgs(src, ns) ==
    [i \in 1..Len(ns) |->
        [source |-> src, owner |-> Owner, name |-> ns[i],
         downloads |-> Missing, daily_downloads |-> Missing]]

InitFetch ==
    /\ ListIdle /\ MainIdle
    /\ data = <<>> /\ prev_map = <<>> /\ raised = FALSE
    /\ calls = 0 /\ data0 = <<>> /\ data1 = <<>>
    /\ mode \in {"pypi", "crates", "github"}
    /\ \E n \in 1..MaxPkgs : names = [i \in 1..n |-> PackageNames[i]]
    /\ pkgs = IF mode = "github" THEN <<>> ELSE ListedPkgs(mode, names)
    /\ task = [i \in 1..Len(names) |-> NewTask]
    /\ fpc = "fanout"

\* A worker of the pool takes the next submitted task.
StartTask(i) ==
    /\ fpc = "fanout" /\ mode \in {"pypi", "crates"}
    /\ task[i].st = "queued"
    /\ \A j \in 1..(i - 1) : task[j].st # "queued"
    /\ Cardinality(Running) < MAX_WORKERS
    /\ task' = [task EXCEPT ![i].st = "running"]
    /\ UNCHANGED <<mode, names, pkgs, fpc>>
    /\ UNCHANGED <<deltaVars, listVars, mainVars>>

\* fetch_pypistats_downloads: one pass of the retry loop whose request
\* succeeds; the function returns.
PypiAttemptOk(i) ==
    /\ mode = "pypi" /\ task[i].st = "running"
    /\ MayAttempt(task[i])
    /\ \E stats \in StatsJsons :
          task' = [task EXCEPT ![i] =
                      [st |-> "done", attempt |-> @.attempt,
                       requests |-> @.requests + 1, ok_at |-> @.requests + 1,
                       got |-> stats, result |-> fetch_pypistats_result(stats)]]
    /\ UNCHANGED <<mode, names, pkgs, fpc>>
    /\ UNCHANGED <<deltaVars, listVars, mainVars>>

\* fetch_pypistats_downloads: one pass whose request fails (timeout, status,
\* payload): logged, slept, next attempt.
PypiAttemptFail(i) ==
    /\ mode = "pypi" /\ task[i].st = "running"
    /\ MayAttempt(task[i])
    /\ task' = [task EXCEPT ![i].attempt = @ + 1, ![i].requests = @ + 1]
    /\ UNCHANGED <<mode, names, pkgs, fpc>>
    /\ UNCHANGED <<deltaVars, listVars, mainVars>>

\* fetch_pypistats_downloads: the loop is exhausted; return 0, 0.
PypiGiveUp(i) ==
    /\ mode = "pypi" /\ task[i].st = "running"
    /\ ~MayAttempt(task[i])
    /\ task' = [task EXCEPT ![i].st = "done", ![i].result = PypiZero]
    /\ UNCHANGED <<mode, names, pkgs, fpc>>
    /\ UNCHANGED <<deltaVars, listVars, mainVars>>

\* fetch_crates_downloads: the single request, answered or failed (return 0).
CratesRequest(i) ==
    /\ mode = "crates" /\ task[i].st = "running"
    /\ \/ \E total \in CrateTotals :
             task' = [task EXCEPT ![i] =
                         [st |-> "done", attempt |-> 0, requests |-> @.requests + 1,
                          ok_at |-> @.requests + 1, got |-> total,
                          result |-> [downloads |-> total]]]
       \/ task' = [task EXCEPT ![i] =
                      [st |-> "done", attempt |-> 0, requests |-> @.requests + 1,
                       ok_at |-> 0, got |-> None,
                       result |-> [downloads |-> Num(0)]]]
    /\ UNCHANGED <<mode, names, pkgs, fpc>>
    /\ UNCHANGED <<deltaVars, listVars, mainVars>>

\* for future in as_completed(futures): the caller stores a finished task's
\* result in the task's own record.  Both task functions catch every
\* Exception themselves, so future.result() returns and the loop's except
\* clause is not taken.
Collect(i) ==
    /\ fpc = "fanout" /\ mode \in {"pypi", "crates"}
    /\ task[i].st = "done"
    /\ pkgs' = [pkgs EXCEPT ![i] =
                   IF mode = "pypi" THEN PypiCollect(@, task[i].result)
                   ELSE CratesCollect(@, task[i].result)]
    /\ task' = [task EXCEPT ![i].st = "collected"]
    /\ UNCHANGED <<mode, names, fpc>>
    /\ UNCHANGED <<deltaVars, listVars, mainVars>>

\* fetch_github_release_downloads: one pass of the loop over an
\* organisation's repositories; a repository whose releases cannot be read
\* is logged and appends nothing.
GithubRepo(i) ==
    /\ fpc = "fanout" /\ mode = "github"
    /\ task[i].st = "queued"
    /\ \A j \in 1..(i - 1) : task[j].st # "queued"
    /\ \/ \E total \in CrateTotals :
             /\ pkgs' = Append(pkgs, GithubEntry(names[i], total))
             /\ task' = [task EXCEPT ![i] =
                            [st |-> "collected", attempt |-> 0, requests |-> 1,
                             ok_at |-> 1, got |-> total,
                             result |-> [downloads |-> total]]]
       \/ /\ pkgs' = pkgs
          /\ task' = [task EXCEPT ![i].st = "collected", ![i].requests = 1]
    /\ UNCHANGED <<mode, names, fpc>>
    /\ UNCHANGED <<deltaVars, listVars, mainVars>>

\* The pool is joined (the loop is over): the adapter returns its list.
ReturnList ==
    /\ fpc = "fanout"
    /\ \A j \in Tasks : task[j].st = "collected"
    /\ fpc' = "returned"
    /\ UNCHANGED <<mode, names, pkgs, task>>
    /\ UNCHANGED <<deltaVars, listVars, mainVars>>

NextFetch ==
    \/ \E i \in Tasks : StartTask(i)
    \/ \E i \in Tasks : PypiAttemptOk(i)
    \/ \E i \in Tasks : PypiAttemptFail(i)
    \/ \E i \in Tasks : PypiGiveUp(i)
    \/ \E i \in Tasks : CratesRequest(i)
    \/ \E i \in Tasks : Collect(i)
    \/ \E i \in Tasks : GithubRepo(i)
    \/ ReturnList

SpecFetch == InitFetch /\ [][NextFetch]_vars

----------------------------------------------------------------------------
(* fetch_crates_data: the listing loop *)

CrateNames == {"a", "b", "c"}

\* What one page of a team's listing can yield: the texts of the links the
\* selector matches, a text possibly empty or repeated.
PageContents == UNION {[1..n -> CrateNames \cup {""}] : n \in 0..MaxPage}

\* new_crates = [c for c in crates if c and c not in seen]
NewCrates(crates, sn) == SelectSeq(crates, LAMBDA c : c # "" /\ c \notin sn)

\* results.append({"source": "crates", "owner": user, "name": name})
CrateRecord(user, name) ==
    [source |-> "crates", owner |-> user, name |-> name,
     downloads |-> Missing, daily_downloads |-> Missing]

InitCrates ==
    /\ data = <<>> /\ prev_map = <<>> /\ raised = FALSE
    /\ calls = 0 /\ data0 = <<>> /\ data1 = <<>>
    /\ FetchIdle /\ MainIdle
    /\ luser = 1
    /\ page_num = 1
    /\ seen = {}
    /\ results = <<>>
    /\ fetches = [u \in 1..Len(USERS) |-> 0]

\* One pass of the while loop whose page loads and yields crates.
ListPage(crates) ==
    /\ luser \in 1..Len(USERS)
    /\ fetches' = [fetches EXCEPT ![luser] = @ + 1]
    /\ LET new_crates == NewCrates(crates, seen)
       IN  IF new_crates = <<>>
           THEN \* break
                /\ luser' = luser + 1
                /\ page_num' = 1
                /\ UNCHANGED <<seen, results>>
           ELSE /\ seen' = seen \cup {new_crates[k] : k \in 1..Len(new_crates)}
                /\ results' = results \o
                      [k \in 1..Len(new_crates) |-> CrateRecord(USERS[luser], new_crates[k])]
                /\ page_num' = page_num + 1
                /\ luser' = luser
    /\ UNCHANGED <<deltaVars, fetchVars, mainVars>>

\* One pass whose page load or selector wait fails: logged, break.
ListPageFail ==
    /\ luser \in 1..Len(USERS)
    /\ fetches' = [fetches EXCEPT ![luser] = @ + 1]
    /\ luser' = luser + 1
    /\ page_num' = 1
    /\ UNCHANGED <<seen, results>>
    /\ UNCHANGED <<deltaVars, fetchVars, mainVars>>

NextCrates ==
    \/ \E crates \in PageContents : ListPage(crates)
    \/ ListPageFail

SpecCrates == InitCrates /\ [][NextCrates]_vars

----------------------------------------------------------------------------
(* main *)

\* What main's runs are drawn from: yesterday's snapshot, and per adapter
\* the lists it can return for one listed package.
MainKeys == {<<s, Owner, Name>> : s \in Sources}
MainPrevMaps == UNION {[D -> {1}] : D \in SUBSET MainKeys}

CumulativeLists(src, totals) ==
    {<<>>} \cup
    {<<[source |-> src, owner |-> Owner, name |-> Name,
        downloads |-> t, daily_downloads |-> None]>> : t \in totals}

\* fetch_pypi_data for one listed package: the stats answered, or every
\* attempt failed.
PypiLists ==
    {<<>>} \cup
    {<<PypiCollect(ListedPkgs("pypi", <<Name>>)[1], res)>> :
        res \in {fetch_pypistats_result(j) : j \in StatsJsons} \cup {PypiZero}}

\* Position of a record in the order of (source, owner, name); the runs of
\* main hold one owner and one name, so the source decides.
SortRank(r) ==
    CASE r.source = "crates" -> 1 [] r.source = "github" -> 2
      [] r.source = "pypi" -> 3 [] r.source = "rubygems" -> 4

\* all_data.sort(key=itemgetter("source", "owner", "name"))
RECURSIVE SortRows(_)
SortRows(rows) ==
    IF rows = <<>> THEN <<>>
    ELSE LET m == CHOOSE i \in 1..Len(rows) :
                     /\ \A j \in 1..Len(rows) : SortRank(rows[i]) <= SortRank(rows[j])
                     /\ \A j \in 1..(i - 1) : SortRank(rows[j]) > SortRank(rows[i])
         IN  <<rows[m]>> \o SortRows([k \in 1..(Len(rows) - 1) |->
                                        IF k < m THEN rows[k] ELSE rows[k + 1]])

InitMain ==
    /\ FetchIdle /\ ListIdle
    /\ data = <<>> /\ prev_map = <<>> /\ raised = FALSE
    /\ calls = 0 /\ data0 = <<>> /\ data1 = <<>>
    /\ pc = "initialize_supabase"
    /\ cause = "none"
    /\ steps = <<>>

MainStep(from, to) ==
    /\ pc = from
    /\ pc' = to
    /\ steps' = Append(steps, from)

MainUnused == <<calls, fetchVars, listVars>>

\* supabase = initialize_supabase(): a missing credential raises.
InitializeSupabase ==
    /\ \/ MainStep("initialize_supabase", "fetch_latest") /\ cause' = cause
       \/ MainStep("initialize_supabase", "failed") /\ cause' = "config"
    /\ UNCHANGED <<data, prev_map, raised, data0, data1, MainUnused>>

\* prev_map = fetch_latest_downloads_map(supabase): the rows of yesterday,
\* or {} when the read fails.
FetchLatest ==
    /\ MainStep("fetch_latest", "fetch_rubygems")
    /\ \/ prev_map' \in MainPrevMaps
       \/ prev_map' = <<>>
    /\ UNCHANGED <<data, raised, data0, data1, cause, MainUnused>>

\* all_data.extend(fetch_rubygems_data(Config.USERS))
FetchRubygems ==
    /\ MainStep("fetch_rubygems", "fetch_crates")
    /\ \E l \in CumulativeLists("rubygems", {None, Num(1)}) : data' = data \o l
    /\ UNCHANGED <<prev_map, raised, data0, data1, cause, MainUnused>>

\* all_data.extend(fetch_crates_data(Config.USERS))
FetchCrates ==
    /\ MainStep("fetch_crates", "fetch_github")
    /\ \E l \in CumulativeLists("crates", {Num(0), Num(1)}) : data' = data \o l
    /\ UNCHANGED <<prev_map, raised, data0, data1, cause, MainUnused>>

\* all_data.extend(fetch_github_release_downloads(...))
FetchGithub ==
    /\ MainStep("fetch_github", "fetch_pypi")
    /\ \E l \in CumulativeLists("github", {Num(1)}) : data' = data \o l
    /\ UNCHANGED <<prev_map, raised, data0, data1, cause, MainUnused>>

\* all_data.extend(fetch_pypi_data(Config.USERS, page))
FetchPypi ==
    /\ MainStep("fetch_pypi", "compute_deltas")
    /\ \E l \in PypiLists : data' = data \o l
    /\ UNCHANGED <<prev_map, raised, data0, data1, cause, MainUnused>>

\* all_data = compute_deltas(all_data, prev_map): an exception leaves main
\* through its except clause, which logs and raises.
Reconcile ==
    /\ pc = "compute_deltas"
    /\ steps' = Append(steps, "compute_deltas")
    /\ LET r == compute_deltas(data, prev_map)
       IN  /\ data' = r.data
           /\ raised' = r.raised
           /\ data1' = r.data
           /\ pc' = IF r.raised THEN "failed" ELSE "sort"
           /\ cause' = IF r.raised THEN "compute_deltas" ELSE cause
    /\ data0' = data
    /\ UNCHANGED <<prev_map, MainUnused>>

\* all_data.sort(key=itemgetter("source", "owner", "name"))
Sort ==
    /\ MainStep("sort", "upsert")
    /\ data' = SortRows(data)
    /\ UNCHANGED <<prev_map, raised, data0, data1, cause, MainUnused>>

\* upsert_into_supabase(supabase, all_data): a failed write is logged and
\* raised again.
Upsert ==
    /\ \/ MainStep("upsert", "done") /\ cause' = cause
       \/ MainStep("upsert", "failed") /\ cause' = "upsert"
    /\ UNCHANGED <<data, prev_map, raised, data0, data1, MainUnused>>

NextMain ==
    \/ InitializeSupabase
    \/ FetchLatest
    \/ FetchRubygems
    \/ FetchCrates
    \/ FetchGithub
    \/ FetchPypi
    \/ Reconcile
    \/ Sort
    \/ Upsert

SpecMain == InitMain /\ [][NextMain]_vars

----------------------------------------------------------------------------
(* Claims about compute_deltas, under SpecDeltas *)

Returned == calls >= 1 /\ ~raised
Rows == 1..Len(data)
HasPrev(i) == Key(data0[i]) \in DOMAIN prev_map
PrevOf(i) == prev_map[Key(data0[i])]
\* The raw total of input row i as a number (a null total counts as 0).
RawTotal(i) == IF IsNum(data0[i].downloads) THEN data0[i].downloads.num ELSE 0

\* C1: after compute_deltas returns, every record's daily_downloads is >= 0,
\* for every source, raw value and previous map.
C1_DailyNonNegative ==
    Returned =>
        \A i \in Rows :
            IsNum(data[i].daily_downloads) => data[i].daily_downloads.num >= 0

\* C2: a cumulative-only record with a previous entry gets daily_downloads =
\* current - prev when current >= prev and 0 when current < prev, and keeps
\* its downloads.
C2_CumulativeDelta ==
    Returned =>
        \A i \in Rows :
            (data0[i].source \in CumulativeOnly /\ HasPrev(i)) =>
                /\ data[i].daily_downloads =
                       Num(IF RawTotal(i) >= PrevOf(i) THEN RawTotal(i) - PrevOf(i) ELSE 0)
                /\ data[i].downloads = data0[i].downloads

\* Witness of C2: one returned call that both clamped a regression and
\* computed a positive difference.
C2_Witness ==
    /\ Returned
    /\ \E i \in Rows : /\ data0[i].source \in CumulativeOnly /\ HasPrev(i)
                        /\ RawTotal(i) < PrevOf(i)
                        /\ data[i].daily_downloads = Num(0)
    /\ \E i \in Rows : /\ data0[i].source \in CumulativeOnly /\ HasPrev(i)
                        /\ RawTotal(i) > PrevOf(i)
                        /\ data[i].daily_downloads = Num(1)

\* C3: a pypi record with a previous entry gets downloads = prev +
\* max(raw daily_downloads, 0), never less than the previous total.
C3_PypiAccumulation ==
    Returned =>
        \A i \in Rows :
            (data0[i].source = "pypi" /\ HasPrev(i) /\ IsNum(data0[i].daily_downloads)) =>
                /\ data[i].downloads =
                       Num(PrevOf(i) + (IF data0[i].daily_downloads.num >= 0
                                        THEN data0[i].daily_downloads.num ELSE 0))
                /\ data[i].downloads.num >= PrevOf(i)

\* C4: with no previous entry a cumulative-only record gets daily_downloads
\* = 0 and keeps its downloads, and a pypi record keeps both raw figures.
C4_FirstObservation ==
    Returned =>
        \A i \in Rows :
            ~HasPrev(i) =>
                IF data0[i].source = "pypi"
                THEN /\ data[i].downloads = data0[i].downloads
                     /\ data[i].daily_downloads = data0[i].daily_downloads
                ELSE /\ data[i].daily_downloads = Num(0)
                     /\ data[i].downloads = data0[i].downloads

\* Witness of C4: a returned call on an empty previous map with a
\* cumulative-only record of positive total and a pypi record.
C4_Witness ==
    /\ Returned
    /\ prev_map = <<>>
    /\ \E i \in Rows : /\ data0[i].source \in CumulativeOnly
                        /\ RawTotal(i) > 0
                        /\ data[i].daily_downloads = Num(0)
    /\ \E i \in Rows : /\ data0[i].source = "pypi"
                        /\ data[i].daily_downloads = Num(1)

\* C6: a second call with the same previous map leaves downloads and
\* daily_downloads as the first call left them, and no call changes an
\* identity.
C6_Idempotent ==
    calls >= 2 =>
        /\ Len(data) = Len(data1)
        /\ \A i \in Rows :
               /\ data[i].downloads = data1[i].downloads
               /\ data[i].daily_downloads = data1[i].daily_downloads
               /\ Key(data[i]) = Key(data0[i])

\* Witness of C6: two calls, the first of which changed both a pypi total
\* and a cumulative-only daily figure.
C6_Witness ==
    /\ calls = 2
    /\ ~raised
    /\ \E i \in Rows : /\ data0[i].source = "pypi"
                        /\ data1[i].downloads # data0[i].downloads
                        /\ data0[i].daily_downloads = Num(1)
    /\ \E i \in Rows : /\ data0[i].source \in CumulativeOnly
                        /\ data1[i].daily_downloads = Num(1)

----------------------------------------------------------------------------
(* Claims about the fetches, under SpecFetch *)

Finished(i) == task[i].st \in {"done", "collected"}
Failed(i) == task[i].ok_at = 0
\* The records of the returned list that carry the name of package i.
RecordsOf(i) == {j \in 1..Len(pkgs) : pkgs[j].name = names[i]}
\* The figure a stats answer carries for a key (0 when the key is absent).
Carried(v) == IF v = Missing THEN Num(0) ELSE v

\* What the record of package i must hold: zero counters after a failed
\* fetch, the fetched counters otherwise.
OwnCounters(i, j) ==
    IF mode = "pypi"
    THEN IF Failed(i)
         THEN pkgs[j].daily_downloads = Num(0) /\ pkgs[j].downloads = Num(0)
         ELSE /\ pkgs[j].daily_downloads = Carried(task[i].got.last_day)
              /\ pkgs[j].downloads = Carried(task[i].got.last_month)
    ELSE pkgs[j].downloads = (IF Failed(i) THEN Num(0) ELSE task[i].got)

\* C7: in the returned list of a fan-out (pypi stats, crates counts, GitHub
\* repositories), under every interleaving, every package is present exactly
\* once, a package whose fetch failed with zero counters and every other
\* with the counters its own fetch returned.
C7_FailureIsolation ==
    fpc = "returned" =>
        \A i \in Tasks :
            /\ Cardinality(RecordsOf(i)) = 1
            /\ \A j \in RecordsOf(i) : OwnCounters(i, j)

\* C7 as amended: as C7 for the two worker pools; in the GitHub loop a
\* repository whose fetch failed has no record, and every other repository
\* is present exactly once with its own total.
C7_FailureIsolationAmended ==
    fpc = "returned" =>
        \A i \in Tasks :
            /\ Cardinality(RecordsOf(i)) = (IF mode = "github" /\ Failed(i) THEN 0 ELSE 1)
            /\ \A j \in RecordsOf(i) : OwnCounters(i, j)

\* Witness of C7: a returned pypi fan-out in which the first package's fetch
\* failed and the second package's fetch answered, the second collected
\* while it carries figures of its own.
C7_Witness ==
    /\ fpc = "returned" /\ mode = "pypi" /\ Len(names) >= 2
    /\ Failed(1) /\ ~Failed(2)
    /\ pkgs[1].daily_downloads = Num(0)
    /\ pkgs[2].daily_downloads = Num(1) /\ pkgs[2].downloads = Num(2)

\* C10: fetch_pypistats_downloads issues at most 3 requests, returns what
\* the first successful request carried without a further request, and
\* returns (0, 0) after 3 failed requests; fetch_crates_downloads issues at
\* most one request and returns 0 when it fails.
C10_BoundedRetry ==
    \A i \in Tasks :
        /\ mode = "pypi" =>
              /\ task[i].requests <= 3
              /\ Finished(i) =>
                    IF Failed(i)
                    THEN task[i].requests = 3 /\ task[i].result = PypiZero
                    ELSE /\ task[i].requests = task[i].ok_at
                         /\ task[i].result.daily = Carried(task[i].got.last_day)
                         /\ task[i].result.monthly = Carried(task[i].got.last_month)
        /\ mode = "crates" =>
              /\ task[i].requests <= 1
              /\ Finished(i) =>
                    /\ task[i].requests = 1
                    /\ task[i].result.downloads = (IF Failed(i) THEN Num(0) ELSE task[i].got)

\* Witness of C10: one pypi fetch gave up after its third failed request
\* while another succeeded at its second.
C10_Witness ==
    /\ mode = "pypi" /\ Len(names) >= 2
    /\ Finished(1) /\ Failed(1) /\ task[1].requests = 3 /\ task[1].result = PypiZero
    /\ Finished(2) /\ task[2].ok_at = 2 /\ task[2].requests = 2

----------------------------------------------------------------------------
(* Claims about the listing loop, under SpecCrates *)

\* C9: the page loop of every user ends after finitely many page fetches (a
\* page without an unseen name, or a failed page, ends it; every other page
\* adds a name of the finite universe), and each crate name appears at most
\* once in the result.
C9_PaginationTerminatesUnique ==
    /\ \A u \in 1..Len(USERS) : fetches[u] <= Cardinality(CrateNames) + 1
    /\ \A i, j \in 1..Len(results) : results[i].name = results[j].name => i = j

\* Termination of the page loop alone: at most one page fetch per crate
\* name, and one more, for each user.
PageFetchesBounded ==
    \A u \in 1..Len(USERS) : fetches[u] <= Cardinality(CrateNames) + 1

----------------------------------------------------------------------------
(* Claims about a run, under SpecMain *)

\* C5: compute_deltas never raises on a record list the fetch functions
\* hand to main, whatever the previous map.
C5_ReconcileTotal == ~raised

MainOrder ==
    <<"initialize_supabase", "fetch_latest", "fetch_rubygems", "fetch_crates",
      "fetch_github", "fetch_pypi", "compute_deltas", "sort", "upsert">>

\* C8: a run stops only for a missing credential or a failed store write,
\* and otherwise reaches the write; its steps are taken in the order
\* read-previous, fetch-all, reconcile, write.
C8_RunReachesWrite ==
    /\ pc = "failed" => cause \in {"config", "upsert"}
    /\ Len(steps) <= Len(MainOrder)
    /\ \A k \in 1..Len(steps) : steps[k] = MainOrder[k]

====
